---------------------------- MODULE Spec2Model ----------------------------
(***************************************************************************)
(* State-machine model of the session-token lifecycle and the registration *)
(* lock of qurekanode-supabase.                                            *)
(*                                                                         *)
(*   LockSpec : utils/requestLock.js (RequestLock) driven by               *)
(*              userController.register, its auto-release timers and the   *)
(*              30 s cleanup interval.                                     *)
(*   LockLiveSpec : LockSpec with the event loop's timer callbacks and the *)
(*              clock weakly fair.                                         *)
(*   Spec     : utils/tokenUtil.js + models/tokenModel.js driven by        *)
(*              userController.login, authController.refreshToken,         *)
(*              authController.logout and the verifyToken middleware.      *)
(*                                                                         *)
(* Handlers are async functions on a single-threaded event loop: a handler *)
(* runs atomically from one await to the next, so every action below is    *)
(* one such run-to-next-await segment.  A store call is executed by the    *)
(* step that resumes the handler awaiting it.                              *)
(***************************************************************************)
EXTENDS Integers, Sequences, FiniteSets, TLC

VARIABLES
    \* ---- registration lock (process-local) ----
    locks,        \* RequestLock.locks : key -> lockInfo (NoLock = key absent)
    timers,       \* pending setTimeout callbacks armed by acquire
    reg,          \* in-flight register requests
    users,        \* Credential Store: registered userids
    nextCleanup,  \* next due time of the setInterval(cleanup, 30000)
    clock,        \* Date.now() of the registration process, ms
    lapsed        \* history: keys whose entry was auto-released (timer or
                  \* cleanup) while the request that acquired it was running

VARIABLES
    \* ---- session tokens ----
    rows,         \* the refresh_token table
    nextId,       \* the table's serial id
    ses,          \* in-flight login / refresh / logout requests
    accounts,     \* Credential Store: the userindex values that resolve
    issued,       \* tokens the server has handed to clients
    now,          \* Date.now() of the session process, in seconds
    last,         \* history: per user, the row and token of the latest
                  \* successful login that overlapped no other login of that
                  \* user, until a later login or delete touches the user's rows
    resp,         \* the response sent by the latest step (NoResp: none)
    arrived       \* number of session requests that have arrived

lockVars == <<locks, timers, reg, users, nextCleanup, clock, lapsed>>

sesVars == <<rows, nextId, ses, accounts, issued, now, last, resp, arrived>>

VARIABLES
    \* ---- one function called on its own ----
    call          \* the call in progress: its arguments, position and result

vars == <<lockVars, sesVars, call>>

-----------------------------------------------------------------------------
(* Bounds of the model *)

\* number of register requests that arrive
MaxReg == 3
\* number of clock steps of the registration process
MaxLockTicks == 2
\* number of session requests in flight at once
MaxSes == 2
\* number of session requests that arrive
MaxArrivals == 3
\* number of clock steps of the session process
MaxSesTicks == 2

-----------------------------------------------------------------------------
(* Program constants *)

\* this.timeout = 5000
timeout == 5000
\* setInterval(..., 30000)
cleanupInterval == 30000

\* the modelled clock advances by one lock window or one cleanup interval
TickSteps == {timeout, cleanupInterval}

-----------------------------------------------------------------------------
(* Registration lock: utils/requestLock.js *)

Keys == {"alice", "bob"}
RegIds == 1..MaxReg
NoLock == [timestamp |-> -1, timer |-> 0]

\* The lock object as a value: the Map and the timers its entries armed.
LockState(l, t) == [locks |-> l, timers |-> t]

\* this.locks.has(key)
has(L, key) == L.locks[key] # NoLock

\* release that deletes the entry and leaves its timer pending
release_keepTimer(L, key) ==
    IF has(L, key)
    THEN [locks  |-> [L.locks EXCEPT ![key] = NoLock],
          timers |-> L.timers]
    ELSE L

\* release that empties the whole map
release_all(L, key) ==
    IF has(L, key)
    THEN [locks  |-> [k \in DOMAIN L.locks |-> NoLock],
          timers |-> {}]
    ELSE L

\* release(key): clearTimeout(lockInfo.timer) and locks.delete(key) when present
release(L, key) ==
    IF has(L, key)
    THEN [locks  |-> [L.locks EXCEPT ![key] = NoLock],
          timers |-> {t \in L.timers : t.id # L.locks[key].timer}]
    ELSE L

\* acquire without the has(key) early return: a second caller overwrites the entry
acquire_overwrite(L, key, tid, ms) ==
    [ok |-> TRUE,
     state |-> [locks  |-> [L.locks EXCEPT ![key] = [timestamp |-> ms, timer |-> tid]],
                timers |-> L.timers \cup
                               {[id |-> tid, key |-> key, due |-> ms + timeout]}]]

\* acquire that records the entry without arming the auto-release timer
acquire_noTimer(L, key, tid, ms) ==
    IF has(L, key)
    THEN [ok |-> FALSE, state |-> L]
    ELSE [ok |-> TRUE,
          state |-> [locks  |-> [L.locks EXCEPT ![key] =
                                    [timestamp |-> ms, timer |-> tid]],
                     timers |-> L.timers]]

\* acquire(key): false when the key is held; otherwise records
\* {timestamp: Date.now(), timer: setTimeout(release(key), timeout)}.
\* tid identifies the timer handle setTimeout returns.
acquire(L, key, tid, ms) ==
    IF has(L, key)
    THEN [ok |-> FALSE, state |-> L]
    ELSE [ok |-> TRUE,
          state |-> [locks  |-> [L.locks EXCEPT ![key] =
                                    [timestamp |-> ms, timer |-> tid]],
                     timers |-> L.timers \cup
                                    {[id |-> tid, key |-> key, due |-> ms + timeout]}]]

\* cleanup(): release every entry with now - timestamp > timeout
RECURSIVE cleanupKeys(_, _, _)
cleanupKeys(L, ks, ms) ==
    IF ks = {} THEN L
    ELSE LET k == CHOOSE x \in ks : TRUE
             L1 == IF has(L, k) /\ ms - L.locks[k].timestamp > timeout
                   THEN release(L, k) ELSE L
         IN cleanupKeys(L1, ks \ {k}, ms)

cleanup(L, ms) == cleanupKeys(L, Keys, ms)

-----------------------------------------------------------------------------
(* userController.register *)

\* req.body: the userid and whether the body passes every check of lines 69-134
\* (one failing body stands for all of them: it is answered before any lock call)
RegBodies == [userid : Keys, valid : {TRUE}] \cup {[userid |-> "", valid |-> FALSE]}

\* a request: its position, the userid of its body and its response status
IdleReg == [pc |-> "idle", userid |-> "", status |-> 0]

\* lines 69-134: required fields present and every format check passes
RegisterValid(body) == body.valid

\* the response ends the handler: only its status is kept
Respond(r, st) == [pc |-> "done", userid |-> "", status |-> st]

\* register that goes on to the uniqueness check although acquire returned false
RegisterStart_ignoreLock(r, body) ==
    /\ reg[r].pc = "idle"
    /\ \A q \in RegIds : q < r => reg[q].pc # "idle"
    /\ IF ~RegisterValid(body)
       THEN /\ reg' = [reg EXCEPT ![r] = Respond(r, 400)]
            /\ UNCHANGED <<locks, timers>>
       ELSE LET a == acquire(LockState(locks, timers), body.userid, r, clock)
            IN /\ reg' = [reg EXCEPT ![r] = [pc |-> "find", userid |-> body.userid,
                                             status |-> 0]]
               /\ locks' = a.state.locks
               /\ timers' = a.state.timers
    /\ UNCHANGED <<users, nextCleanup, clock, lapsed>>
    /\ UNCHANGED <<sesVars, call>>

\* register that calls release(userid) before its 429
RegisterStart_conflictReleases(r, body) ==
    /\ reg[r].pc = "idle"
    /\ \A q \in RegIds : q < r => reg[q].pc # "idle"
    /\ IF ~RegisterValid(body)
       THEN /\ reg' = [reg EXCEPT ![r] = Respond(r, 400)]
            /\ UNCHANGED <<locks, timers>>
       ELSE LET a == acquire(LockState(locks, timers), body.userid, r, clock)
                L == release(LockState(locks, timers), body.userid)
            IN IF ~a.ok
               THEN /\ reg' = [reg EXCEPT ![r] = Respond(r, 429)]
                    /\ locks' = L.locks
                    /\ timers' = L.timers
               ELSE /\ reg' = [reg EXCEPT ![r] = [pc |-> "find", userid |-> body.userid,
                                                  status |-> 0]]
                    /\ locks' = a.state.locks
                    /\ timers' = a.state.timers
    /\ UNCHANGED <<users, nextCleanup, clock, lapsed>>
    /\ UNCHANGED <<sesVars, call>>

\* register entry up to the first await: validation, acquire, findByUserid call
RegisterStart(r, body) ==
    /\ reg[r].pc = "idle"
    /\ \A q \in RegIds : q < r => reg[q].pc # "idle"
    /\ IF ~RegisterValid(body)
       THEN /\ reg' = [reg EXCEPT ![r] = Respond(r, 400)]
            /\ UNCHANGED <<locks, timers>>
       ELSE LET a == acquire(LockState(locks, timers), body.userid, r, clock)
            IN IF ~a.ok
               THEN /\ reg' = [reg EXCEPT ![r] =
                                  Respond(r, 429)]
                    /\ UNCHANGED <<locks, timers>>
               ELSE /\ reg' = [reg EXCEPT ![r] = [pc |-> "find", userid |-> body.userid,
                                                  status |-> 0]]
                    /\ locks' = a.state.locks
                    /\ timers' = a.state.timers
    /\ UNCHANGED <<users, nextCleanup, clock, lapsed>>
    /\ UNCHANGED <<sesVars, call>>

\* a response sent without the handler's release(userid)
ReleaseAndRespond_keep(r, st) ==
    /\ reg' = [reg EXCEPT ![r] = Respond(r, st)]
    /\ UNCHANGED <<locks, timers>>

\* the handler's registrationLock.release(userid) followed by a response
ReleaseAndRespond(r, st) ==
    LET L == release(LockState(locks, timers), reg[r].userid)
    IN /\ locks' = L.locks
       /\ timers' = L.timers
       /\ reg' = [reg EXCEPT ![r] = Respond(r, st)]

\* await User.findByUserid(userid) resumes: existing user -> release + 409,
\* lookup error -> catch: release + 500, otherwise User.create is called
RegisterFind(r, outcome) ==
    /\ reg[r].pc = "find"
    /\ CASE outcome = "error" -> ReleaseAndRespond(r, 500)
         [] outcome = "ok" /\ reg[r].userid \in users -> ReleaseAndRespond(r, 409)
         [] OTHER -> /\ reg' = [reg EXCEPT ![r].pc = "create"]
                     /\ UNCHANGED <<locks, timers>>
    /\ UNCHANGED <<users, nextCleanup, clock, lapsed>>
    /\ UNCHANGED <<sesVars, call>>

\* register whose duplicate-key answer skips the catch's release
RegisterCreate_leakOnDup(r, outcome) ==
    /\ reg[r].pc = "create"
    /\ CASE outcome = "error" -> ReleaseAndRespond(r, 500) /\ UNCHANGED users
         [] outcome = "dup" \/ reg[r].userid \in users ->
                /\ reg' = [reg EXCEPT ![r] = Respond(r, 409)]
                /\ UNCHANGED <<locks, timers, users>>
         [] OTHER -> /\ users' = users \cup {reg[r].userid}
                     /\ reg' = [reg EXCEPT ![r].pc = "folder"]
                     /\ UNCHANGED <<locks, timers>>
    /\ UNCHANGED <<nextCleanup, clock, lapsed>>
    /\ UNCHANGED <<sesVars, call>>

\* await User.create(...) resumes: inserted, duplicate key (23505 -> 409) or
\* another storage error (500); both errors go through the catch's release
RegisterCreate(r, outcome) ==
    /\ reg[r].pc = "create"
    /\ CASE outcome = "error" -> ReleaseAndRespond(r, 500) /\ UNCHANGED users
         [] outcome = "dup" \/ reg[r].userid \in users ->
                ReleaseAndRespond(r, 409) /\ UNCHANGED users
         [] OTHER -> /\ users' = users \cup {reg[r].userid}
                     /\ reg' = [reg EXCEPT ![r].pc = "folder"]
                     /\ UNCHANGED <<locks, timers>>
    /\ UNCHANGED <<nextCleanup, clock, lapsed>>
    /\ UNCHANGED <<sesVars, call>>

\* await Favorite.createDefaultFolder resumes (its failure is only logged):
\* release + 201
RegisterFolder(r) ==
    /\ reg[r].pc = "folder"
    /\ ReleaseAndRespond(r, 201)
    /\ UNCHANGED <<users, nextCleanup, clock, lapsed>>
    /\ UNCHANGED <<sesVars, call>>

\* the keys whose entry a step removed while the acquiring request still runs
Lapsing(old, new) ==
    {k \in Keys : /\ old[k] # NoLock /\ new[k] = NoLock
                  /\ reg[old[k].timer].pc \in {"find", "create", "folder"}}

\* a setTimeout callback armed by acquire runs: this.release(key)
TimerFire(t) ==
    /\ t \in timers
    /\ clock >= t.due
    /\ LET L == release(LockState(locks, timers \ {t}), t.key)
       IN locks' = L.locks /\ timers' = L.timers
    /\ lapsed' = lapsed \cup Lapsing(locks, locks')
    /\ UNCHANGED <<reg, users, nextCleanup, clock>>
    /\ UNCHANGED <<sesVars, call>>

\* the setInterval callback runs registrationLock.cleanup()
Cleanup ==
    /\ clock >= nextCleanup
    /\ LET L == cleanup(LockState(locks, timers), clock)
       IN locks' = L.locks /\ timers' = L.timers
    /\ lapsed' = lapsed \cup Lapsing(locks, locks')
    /\ nextCleanup' = nextCleanup + cleanupInterval
    /\ UNCHANGED <<reg, users, clock>>
    /\ UNCHANGED <<sesVars, call>>

\* number of clock steps taken to reach clock value c
TicksOf(c) == (c \div cleanupInterval) + ((c % cleanupInterval) \div timeout)

\* time passes in the registration process
LockTick(d) ==
    /\ TicksOf(clock) < MaxLockTicks
    /\ (clock % cleanupInterval) + d <= cleanupInterval
    /\ clock' = clock + d
    /\ UNCHANGED <<locks, timers, reg, users, nextCleanup, lapsed>>
    /\ UNCHANGED <<sesVars, call>>

-----------------------------------------------------------------------------
(* Token Codec: utils/tokenUtil.js over jsonwebtoken and bcrypt *)

\* session instants and durations are in seconds (Date.now() / 1000)
HourS == 60 * 60
DayS == 24 * HourS

\* ACCESS_TOKEN_EXPIRES_IN || '1h' and REFRESH_TOKEN_EXPIRES_IN || '7d'
ACCESS_TOKEN_EXPIRES_IN == HourS
REFRESH_TOKEN_EXPIRES_IN == 7 * DayS

\* userindex values of the Credential Store
Users == {1, 2}

\* A signed token is the value of the secret that signed it and of the claims
\* the handlers read back:
\*   kind : "access" / "refresh" (ACCESS_TOKEN_SECRET / REFRESH_TOKEN_SECRET)
\*   id   : payload.id (payload.userid and payload.name are fixed by it)
\*   iat, exp : issue and expiry instants (jsonwebtoken counts whole seconds;
\*          every instant of the model is a whole number of seconds)
\* payload.rememberMe is left out: login, refresh and logout never read it.
NoToken == [kind |-> "absent", id |-> 0, iat |-> 0, exp |-> 0]
\* Strings that are no JWT of the server: two unrelated strings ("not-a-jwt",
\* "another string"; id tells them apart), and Forged(u), a string that begins
\* with the 72 bytes every token of user u begins with but carries no valid
\* signature (a token with an altered signature, or its first 72 characters
\* followed by anything)
Garbage == [kind |-> "garbage", id |-> 0, iat |-> 0, exp |-> 0]

AnotherString == [kind |-> "garbage", id |-> 1, iat |-> 0, exp |-> 0]

Forged(u) == [kind |-> "forged", id |-> u, iat |-> 0, exp |-> 0]

\* jwt.sign(payload, secret, {expiresIn}) at instant t
jwtSign(id, kind, t) ==
    [kind |-> kind, id |-> id, iat |-> t,
     exp |-> t + (IF kind = "access" THEN ACCESS_TOKEN_EXPIRES_IN
                  ELSE REFRESH_TOKEN_EXPIRES_IN)]

generateAccessToken(id, t) == jwtSign(id, "access", t)
generateRefreshToken(id, t) == jwtSign(id, "refresh", t)

\* jwt.verify(token, secret): the signature is checked first (JsonWebTokenError),
\* then the expiry (TokenExpiredError when clockTimestamp >= exp)
jwtVerify(tok, kind, t) ==
    IF tok.kind # kind THEN "invalid"
    ELSE IF t >= tok.exp THEN "expired"
    ELSE "ok"

\* bcrypt reads only the first 72 bytes of its input.  A compact HS256 JWT
\* starts with the 36-character header eyJhbGciOiJIUzI1NiIsInR5cCI6IkpXVCJ9, a
\* dot, and then the base64url payload, whose first 35 characters encode the
\* first 26 bytes of {"id":<id>,"userid":"<userid>","name":...  These bytes are
\* the same for every token signed for one user (access or refresh, whatever
\* its later claims and its signature) and differ between users.  Any other
\* string gives its own first 72 bytes.
bcryptInput(plain) ==
    IF plain.kind \in {"access", "refresh", "forged"} THEN <<"HS256", plain.id>>
    ELSE <<plain.kind, plain.id>>

\* bcrypt.hash(plain, 10); the salt plays no part in compare and is left out
bcryptHash(plain) == bcryptInput(plain)

\* bcrypt.compare(plain, hash)
bcryptCompare(plain, hash) == bcryptInput(plain) = hash

-----------------------------------------------------------------------------
(* Refresh Token Store: models/tokenModel.js *)

NoRow == [id |-> 0, user_id |-> 0, token |-> <<>>, expires_at |-> 0]

\* .delete().eq('user_id', userId)
deleteRefreshToken_keep(rs, userId) == rs

deleteRefreshToken(rs, userId) == {r \in rs : r.user_id # userId}

\* .delete().eq('id', tokenRecord.id)
deleteById(rs, id) == {r \in rs : r.id # id}

\* .insert({user_id, token, expires_at}); the table assigns the serial id
insertRow(rs, id, userId, hashedToken, expiresAt) ==
    rs \cup {[id |-> id, user_id |-> userId, token |-> hashedToken,
              expires_at |-> expiresAt]}

\* .from('refresh_token').select('*') has no order clause: the rows come back
\* in any order
selectAll(rs) ==
    {data \in [1..Cardinality(rs) -> rs] : \A r \in rs : \E i \in DOMAIN data : data[i] = r}

\* findRefreshToken's loop over data: the first row whose hash bcrypt.compare
\* accepts, or null
RECURSIVE firstMatch(_, _)
firstMatch(data, plain) ==
    IF data = <<>> THEN NoRow
    ELSE IF bcryptCompare(plain, Head(data).token) THEN Head(data)
    ELSE firstMatch(Tail(data), plain)

\* the rows findRefreshToken(plainToken) can return from table rs
findRefreshToken(rs, plain) == {firstMatch(data, plain) : data \in selectAll(rs)}

\* rows of the table that bcrypt.compare accepts for plain
Matching(rs, plain) == {r \in rs : bcryptCompare(plain, r.token)}

\* extractToken(req, tokenType): Bearer header, then body, then cookie
extractToken(req) ==
    IF req.auth # NoToken THEN req.auth
    ELSE IF req.body # NoToken THEN req.body
    ELSE IF req.cookie # NoToken THEN req.cookie
    ELSE NoToken

-----------------------------------------------------------------------------
(* Session Manager: userController.login, authController.refreshToken/logout *)

SesIds == 1..MaxSes

\* cookie maxAge values of setTokenCookies, in seconds
AccessCookieMaxAge == 60 * 60
RefreshCookieMaxAge(rememberMe) ==
    IF rememberMe THEN 30 * 24 * 60 * 60 ELSE 7 * 24 * 60 * 60

\* setTokenCookies without the rememberMe branch
setTokenCookies_flat(rememberMe) ==
    {<<"accessToken", AccessCookieMaxAge>>,
     <<"refreshToken", RefreshCookieMaxAge(FALSE)>>,
     <<"rememberMe", RefreshCookieMaxAge(FALSE)>>}

\* setTokenCookies: the cookies a login sets, as <<name, maxAge>>
setTokenCookies(rememberMe) ==
    {<<"accessToken", AccessCookieMaxAge>>,
     <<"refreshToken", RefreshCookieMaxAge(rememberMe)>>,
     <<"rememberMe", RefreshCookieMaxAge(rememberMe)>>}

\* A request in flight: op and pc say where the handler is; tok is the token
\* in hand (the one extracted from the request, or the refresh token a login
\* signed); uid is the user (login: the user of the body, logout: req.user.id);
\* rm is the body's rememberMe; exp is the expiresAt a login computed; rowid
\* is tokenRecord.id.  Three fields are history: from is the table's serial id
\* when the request arrived, alone says that a login has overlapped no other
\* login of its user, bare says that a logout request carried no token in its
\* body and no token cookie, again says that a logout arrived right after the
\* 200 answer of a logout that presented the same token, carried is the
\* refresh token a logout request has in its body or, failing that, in its
\* cookie, when that token verifies (NoToken otherwise).  For a login uid is
\* the user the body's userid names (0: nobody) and pwok says that the body's
\* password is that user's; for a refresh and a logout rowid and exp are the
\* id and expires_at of the row findRefreshToken picked from the table it read
\* (rowid 0: no row matched).
IdleSes == [op |-> "", pc |-> "idle", tok |-> NoToken, uid |-> 0, rm |-> FALSE,
            exp |-> 0, rowid |-> 0, from |-> 0, alone |-> TRUE, bare |-> FALSE,
            again |-> FALSE, carried |-> NoToken, pwok |-> FALSE]

\* A response: status, the tokens of the body (acc, ref), the cookies set as
\* <<name, maxAge>>, the cookie names cleared, the body's expired flag,
\* user.id and rememberMe, and which message a 500 of login carries ("save":
\* the token could not be saved, "server": the handler's outer catch).  One
\* field is history: tok is the token presented by the request that a 200 of
\* logout or an answer of the Auth Gate answers.
NoResp == [op |-> "", status |-> 0, acc |-> NoToken, ref |-> NoToken,
           cookies |-> {}, cleared |-> {}, expired |-> FALSE, user |-> 0,
           rm |-> FALSE, msg |-> "", tok |-> NoToken]

\* res.status(st).json(...) with nothing else
SesReply(op, st) == [NoResp EXCEPT !.op = op, !.status = st]

\* an arriving request takes the lowest idle slot
Take(s) ==
    /\ arrived < MaxArrivals
    /\ arrived' = arrived + 1
    /\ ses[s].pc = "idle"
    /\ \A q \in 1..(s - 1) : ses[q].pc # "idle"

\* the requests a client can send: each source carries a token the server
\* handed out earlier, such a token with its signature altered, a string that
\* is no JWT, or nothing
Presentable == issued \cup {Forged(t.id) : t \in issued} \cup {Garbage, NoToken}
\* (none is drawn once MaxArrivals requests have arrived)
Requests ==
    IF arrived < MaxArrivals
    THEN [auth : Presentable, body : Presentable, cookie : Presentable]
    ELSE {}

LoginBodies == [user : Users \cup {0}, password : {"right", "wrong", ""},
                rememberMe : BOOLEAN]

\* login's two 500 answers: the outer catch (lines 325-330) and the catch
\* around saveRefreshToken (lines 296-301), neither with a token or a cookie
ServerError == [SesReply("login", 500) EXCEPT !.msg = "server"]
\* the catch around saveRefreshToken answering 200 with both tokens
SaveFailed_degraded ==
    [SesReply("login", 200) EXCEPT !.msg = "save", !.acc = generateAccessToken(1, 0),
                                   !.ref = generateRefreshToken(1, 0)]

\* the catch around saveRefreshToken answering 500 after the cookies were set
SaveFailed_withCookies ==
    [SesReply("login", 500) EXCEPT !.msg = "save", !.cookies = setTokenCookies(FALSE)]

SaveFailed == [SesReply("login", 500) EXCEPT !.msg = "save"]

\* a login of user u is between its credential check and its response
LoginInFlight(s, u) ==
    ses[s].op = "login" /\ ses[s].uid = u /\ ses[s].pc \in {"hash", "delete", "insert"}

\* login up to await User.authenticate, which sends the select of
\* findByUserid: 400 when userid or password is missing
LoginStart(s, body) ==
    /\ Take(s)
    /\ IF body.password = ""
       THEN /\ resp' = SesReply("login", 400)
            /\ UNCHANGED ses
       ELSE /\ ses' = [ses EXCEPT ![s] =
                         [IdleSes EXCEPT !.op = "login", !.pc = "select",
                                         !.uid = body.user,
                                         !.pwok = (body.password = "right"),
                                         !.rm = (body.rememberMe
                                                 /\ body.password = "right")]]
            /\ resp' = NoResp
    /\ UNCHANGED <<rows, nextId, issued, now, last, accounts>>
    /\ UNCHANGED <<lockVars, call>>

\* findByUserid's select returns inside User.authenticate: error -> login's
\* outer catch -> 500; no such user -> null -> 401; otherwise bcrypt.compare
\* of the password is awaited
LoginSelect(s, outcome) ==
    /\ ses[s].op = "login" /\ ses[s].pc = "select"
    /\ IF outcome = "error" \/ ses[s].uid \notin accounts
       THEN /\ ses' = [ses EXCEPT ![s] = IdleSes]
            /\ resp' = IF outcome = "error" THEN ServerError
                       ELSE SesReply("login", 401)
       ELSE /\ ses' = [ses EXCEPT ![s].pc = "auth"]
            /\ resp' = NoResp
    /\ UNCHANGED <<rows, nextId, issued, now, last, arrived, accounts>>
    /\ UNCHANGED <<lockVars, call>>

\* bcrypt.compare of the password resumes: a wrong password -> null -> 401;
\* otherwise both tokens are signed and saveRefreshToken starts (await
\* bcrypt.hash)
LoginAuth(s) ==
    /\ ses[s].op = "login" /\ ses[s].pc = "auth"
    /\ LET u == ses[s].uid
           others == {q \in SesIds \ {s} : LoginInFlight(q, u)}
       IN IF ~ses[s].pwok
          THEN /\ ses' = [ses EXCEPT ![s] = IdleSes]
               /\ resp' = SesReply("login", 401)
          ELSE /\ ses' = [q \in SesIds |->
                            IF q = s
                            THEN [ses[s] EXCEPT !.pc = "hash", !.alone = (others = {}),
                                      !.tok = generateRefreshToken(u, now)]
                            ELSE IF q \in others THEN [ses[q] EXCEPT !.alone = FALSE]
                            ELSE ses[q]]
               /\ resp' = NoResp
    /\ UNCHANGED <<rows, nextId, issued, now, last, arrived, accounts>>
    /\ UNCHANGED <<lockVars, call>>

\* await bcrypt.hash resumes: expiresAt = Date.now() + 7 days, then
\* Token.saveRefreshToken validates and calls deleteRefreshToken(userId)
LoginHash(s) ==
    /\ ses[s].op = "login" /\ ses[s].pc = "hash"
    /\ ses' = [ses EXCEPT ![s].pc = "delete",
                          ![s].exp = now + 7 * 24 * 60 * 60]
    /\ UNCHANGED <<rows, nextId, issued, now, last, arrived, accounts>>
    /\ resp' = NoResp
    /\ UNCHANGED <<lockVars, call>>

\* await deleteRefreshToken(userId) resumes: the user's rows are gone and the
\* insert is sent; a storage error ends the login with 500
LoginDelete(s, outcome) ==
    /\ ses[s].op = "login" /\ ses[s].pc = "delete"
    /\ IF outcome = "error"
       THEN /\ ses' = [ses EXCEPT ![s] = IdleSes]
            /\ resp' = SaveFailed
            /\ UNCHANGED <<rows, last>>
       ELSE /\ rows' = deleteRefreshToken(rows, ses[s].uid)
            /\ ses' = [ses EXCEPT ![s].pc = "insert"]
            /\ last' = [last EXCEPT ![ses[s].uid] = [row |-> 0, tok |-> NoToken]]
            /\ resp' = NoResp
    /\ UNCHANGED <<nextId, issued, now, arrived, accounts>>
    /\ UNCHANGED <<lockVars, call>>

\* await insert resumes: the row is stored, setTokenCookies, 200 with both
\* tokens; a storage error ends the login with 500 and no cookie
LoginInsert(s, outcome) ==
    /\ ses[s].op = "login" /\ ses[s].pc = "insert"
    /\ ses' = [ses EXCEPT ![s] = IdleSes]
    /\ IF outcome = "error"
       THEN /\ resp' = SaveFailed
            /\ UNCHANGED <<rows, nextId, issued, last>>
       ELSE LET u == ses[s].uid
                t == ses[s].tok
                a == generateAccessToken(u, t.iat)
            IN /\ rows' = insertRow(rows, nextId, u, bcryptHash(t), ses[s].exp)
               /\ nextId' = nextId + 1
               /\ issued' = issued \cup {a, t}
               /\ resp' = [SesReply("login", 200) EXCEPT
                              !.acc = a, !.ref = t, !.rm = ses[s].rm,
                              !.cookies = setTokenCookies(ses[s].rm)]
               /\ last' = [last EXCEPT ![u] =
                              IF ses[s].alone THEN [row |-> nextId, tok |-> t]
                              ELSE [row |-> 0, tok |-> NoToken]]
    /\ UNCHANGED <<now, arrived, accounts>>
    /\ UNCHANGED <<lockVars, call>>

\* the row deleted by a logout or an expired refresh ends its user's history
Forget(rs, id) ==
    [u \in Users |-> IF \E r \in rs : r.id = id /\ r.user_id = u
                     THEN [row |-> 0, tok |-> NoToken] ELSE last[u]]

\* res.clearCookie('accessToken'); res.clearCookie('refreshToken'); status st
Reject(st) ==
    [SesReply("refresh", st) EXCEPT !.cleared = {"accessToken", "refreshToken"}]

\* refreshToken up to the first await: no token -> 400; jwt.verify under the
\* refresh secret throws -> verifyRefreshToken returns null -> 401; otherwise
\* Token.findRefreshToken is awaited, which sends its select
RefreshStart(s, req) ==
    /\ Take(s)
    /\ LET t == extractToken(req)
       IN IF t = NoToken
          THEN /\ resp' = SesReply("refresh", 400)
               /\ UNCHANGED ses
          ELSE IF jwtVerify(t, "refresh", now) # "ok"
          THEN /\ resp' = Reject(401)
               /\ UNCHANGED ses
          ELSE /\ ses' = [ses EXCEPT ![s] =
                            [IdleSes EXCEPT !.op = "refresh", !.pc = "select",
                                            !.tok = t, !.from = nextId]]
               /\ resp' = NoResp
    /\ UNCHANGED <<rows, nextId, issued, now, last, accounts>>
    /\ UNCHANGED <<lockVars, call>>

\* findRefreshToken's select returns with the table as it is now: a storage
\* error -> verifyRefreshToken's catch -> null -> 401; an empty table -> null
\* -> 401; otherwise the row is the first one of the rows read that
\* bcrypt.compare accepts, and the compares are awaited
RefreshSelect(s, outcome) ==
    /\ ses[s].op = "refresh" /\ ses[s].pc = "select"
    /\ \E tokenRecord \in findRefreshToken(rows, ses[s].tok) :
         IF outcome = "error" \/ rows = {}
         THEN /\ ses' = [ses EXCEPT ![s] = IdleSes]
              /\ resp' = Reject(401)
         ELSE /\ ses' = [ses EXCEPT ![s].pc = "find",
                                    ![s].rowid = tokenRecord.id,
                                    ![s].exp = tokenRecord.expires_at]
              /\ resp' = NoResp
    /\ UNCHANGED <<rows, nextId, issued, now, last, arrived, accounts>>
    /\ UNCHANGED <<lockVars, call>>

\* the compares are done and findRefreshToken returns: no matching row ->
\* null -> 401; a row past its expires_at -> deleteRefreshTokenByToken is
\* called, which sends the select of its own findRefreshToken; otherwise
\* User.findByUserid is awaited
RefreshFind(s) ==
    /\ ses[s].op = "refresh" /\ ses[s].pc = "find"
    /\ IF ses[s].rowid = 0
       THEN /\ ses' = [ses EXCEPT ![s] = IdleSes]
            /\ resp' = Reject(401)
       ELSE /\ ses' = [ses EXCEPT ![s].pc =
                         IF now > ses[s].exp THEN "expselect" ELSE "user"]
            /\ resp' = NoResp
    /\ UNCHANGED <<rows, nextId, issued, now, last, arrived, accounts>>
    /\ UNCHANGED <<lockVars, call>>

\* the select of deleteRefreshTokenByToken's findRefreshToken returns: error
\* or an empty table -> verifyRefreshToken returns null -> 401; otherwise the
\* row is picked from the rows read and the compares are awaited
RefreshExpSelect(s, outcome) ==
    /\ ses[s].op = "refresh" /\ ses[s].pc = "expselect"
    /\ \E tokenRecord \in findRefreshToken(rows, ses[s].tok) :
         IF outcome = "error" \/ rows = {}
         THEN /\ ses' = [ses EXCEPT ![s] = IdleSes]
              /\ resp' = Reject(401)
         ELSE /\ ses' = [ses EXCEPT ![s].pc = "expfind",
                                    ![s].rowid = tokenRecord.id,
                                    ![s].exp = tokenRecord.expires_at]
              /\ resp' = NoResp
    /\ UNCHANGED <<rows, nextId, issued, now, last, arrived, accounts>>
    /\ UNCHANGED <<lockVars, call>>

\* the compares are done: no row -> false -> verifyRefreshToken returns null
\* -> 401; otherwise the delete by the row's id is sent and awaited
RefreshExpFind(s) ==
    /\ ses[s].op = "refresh" /\ ses[s].pc = "expfind"
    /\ IF ses[s].rowid = 0
       THEN /\ ses' = [ses EXCEPT ![s] = IdleSes]
            /\ resp' = Reject(401)
       ELSE /\ ses' = [ses EXCEPT ![s].pc = "expdel"]
            /\ resp' = NoResp
    /\ UNCHANGED <<rows, nextId, issued, now, last, arrived, accounts>>
    /\ UNCHANGED <<lockVars, call>>

\* the delete by id resumes (done or failed): verifyRefreshToken returns null
RefreshExpDelete(s, outcome) ==
    /\ ses[s].op = "refresh" /\ ses[s].pc = "expdel"
    /\ IF outcome = "error"
       THEN UNCHANGED <<rows, last>>
       ELSE /\ rows' = deleteById(rows, ses[s].rowid)
            /\ last' = Forget(rows, ses[s].rowid)
    /\ ses' = [ses EXCEPT ![s] = IdleSes]
    /\ resp' = Reject(401)
    /\ UNCHANGED <<nextId, issued, now, arrived, accounts>>
    /\ UNCHANGED <<lockVars, call>>

\* await User.findByUserid(payload.userid) resumes: error -> 500, no user ->
\* 404 and both cookies cleared, otherwise a new access token {id, userid,
\* name} is signed, set as the accessToken cookie and returned
RefreshUser_noLookup(s, outcome) ==
    /\ ses[s].op = "refresh" /\ ses[s].pc = "user"
    /\ ses' = [ses EXCEPT ![s] = IdleSes]
    /\ LET a == generateAccessToken(ses[s].tok.id, now)
       IN /\ resp' = [SesReply("refresh", 200) EXCEPT
                         !.acc = a, !.cookies = {<<"accessToken", AccessCookieMaxAge>>}]
          /\ issued' = issued \cup {a}
    /\ UNCHANGED <<rows, nextId, now, last, arrived, accounts>>
    /\ UNCHANGED <<lockVars, call>>

RefreshUser(s, outcome) ==
    /\ ses[s].op = "refresh" /\ ses[s].pc = "user"
    /\ ses' = [ses EXCEPT ![s] = IdleSes]
    /\ IF outcome = "error"
       THEN /\ resp' = SesReply("refresh", 500)
            /\ UNCHANGED issued
       ELSE IF ses[s].tok.id \notin accounts
       THEN /\ resp' = Reject(404)
            /\ UNCHANGED issued
       ELSE LET a == generateAccessToken(ses[s].tok.id, now)
            IN /\ resp' = [SesReply("refresh", 200) EXCEPT
                              !.acc = a,
                              !.cookies = {<<"accessToken", AccessCookieMaxAge>>}]
               /\ issued' = issued \cup {a}
    /\ UNCHANGED <<rows, nextId, now, last, arrived, accounts>>
    /\ UNCHANGED <<lockVars, call>>

\* clearCookie of all three cookies and 200
LoggedOut ==
    [SesReply("logout", 200) EXCEPT
        !.cleared = {"accessToken", "refreshToken", "rememberMe"}]

\* the refresh token of a request's body or, failing that, cookie, when it
\* verifies under the refresh secret
Carried(req) ==
    LET t == IF req.body # NoToken THEN req.body ELSE req.cookie
    IN IF jwtVerify(t, "refresh", now) = "ok" THEN t ELSE NoToken

\* POST /logout: the route's pre-handler sets req.user when the Bearer header
\* verifies under the access secret; logout then extracts the token and calls
\* deleteRefreshTokenByToken (a token was extracted), deleteRefreshToken(userId)
\* (no token, req.user set) or nothing
LogoutStart(s, req) ==
    /\ Take(s)
    /\ LET userId == IF req.auth # NoToken /\ jwtVerify(req.auth, "access", now) = "ok"
                     THEN req.auth.id ELSE 0
           refreshToken == extractToken(req)
           r == [IdleSes EXCEPT !.op = "logout", !.tok = refreshToken,
                                !.uid = userId, !.from = nextId,
                                !.bare = (req.body = NoToken /\ req.cookie = NoToken),
                                !.again = (resp.op = "logout" /\ resp.status = 200
                                           /\ resp.tok = refreshToken),
                                !.carried = Carried(req)]
       IN IF refreshToken # NoToken
          THEN /\ ses' = [ses EXCEPT ![s] = [r EXCEPT !.pc = "select"]]
               /\ resp' = NoResp
          ELSE IF userId # 0
          THEN /\ ses' = [ses EXCEPT ![s] = [r EXCEPT !.pc = "deluser"]]
               /\ resp' = NoResp
          ELSE /\ resp' = LoggedOut
               /\ UNCHANGED ses
    /\ UNCHANGED <<rows, nextId, issued, now, last, accounts>>
    /\ UNCHANGED <<lockVars, call>>

\* the select of deleteRefreshTokenByToken's findRefreshToken returns: error
\* -> logout's catch -> 500; an empty table -> false -> 200; otherwise the row
\* is picked from the rows read and the compares are awaited
LogoutSelect(s, outcome) ==
    /\ ses[s].op = "logout" /\ ses[s].pc = "select"
    /\ \E tokenRecord \in findRefreshToken(rows, ses[s].tok) :
         IF outcome = "error"
         THEN /\ ses' = [ses EXCEPT ![s] = IdleSes]
              /\ resp' = SesReply("logout", 500)
         ELSE IF rows = {}
         THEN /\ ses' = [ses EXCEPT ![s] = IdleSes]
              /\ resp' = [LoggedOut EXCEPT !.tok = ses[s].tok]
         ELSE /\ ses' = [ses EXCEPT ![s].pc = "find",
                                    ![s].rowid = tokenRecord.id]
              /\ resp' = NoResp
    /\ UNCHANGED <<rows, nextId, issued, now, last, arrived, accounts>>
    /\ UNCHANGED <<lockVars, call>>

\* the compares are done: no row -> false -> 200; otherwise the delete by the
\* row's id is sent and awaited
LogoutFind(s) ==
    /\ ses[s].op = "logout" /\ ses[s].pc = "find"
    /\ IF ses[s].rowid = 0
       THEN /\ ses' = [ses EXCEPT ![s] = IdleSes]
            /\ resp' = [LoggedOut EXCEPT !.tok = ses[s].tok]
       ELSE /\ ses' = [ses EXCEPT ![s].pc = "delete"]
            /\ resp' = NoResp
    /\ UNCHANGED <<rows, nextId, issued, now, last, arrived, accounts>>
    /\ UNCHANGED <<lockVars, call>>

\* the awaited delete resumes (by row id after the find, or by user id in the
\* fallback): error -> catch -> 500; otherwise cookies cleared and 200
LogoutDelete(s, outcome) ==
    /\ ses[s].op = "logout" /\ ses[s].pc \in {"delete", "deluser"}
    /\ ses' = [ses EXCEPT ![s] = IdleSes]
    /\ IF outcome = "error"
       THEN /\ resp' = SesReply("logout", 500)
            /\ UNCHANGED <<rows, last>>
       ELSE /\ resp' = [LoggedOut EXCEPT !.tok = ses[s].tok]
            /\ IF ses[s].pc = "delete"
               THEN /\ rows' = deleteById(rows, ses[s].rowid)
                    /\ last' = Forget(rows, ses[s].rowid)
               ELSE /\ rows' = deleteRefreshToken(rows, ses[s].uid)
                    /\ last' = [last EXCEPT ![ses[s].uid] = [row |-> 0, tok |-> NoToken]]
    /\ UNCHANGED <<nextId, issued, now, arrived, accounts>>
    /\ UNCHANGED <<lockVars, call>>

\* Auth Gate: the verifyToken middleware in front of GET /verify.  No token ->
\* 401; jwt.verify under the access secret throws TokenExpiredError -> 401
\* with expired: true; any other error -> 403; otherwise req.user = decoded
\* and next(): the route's handler answers 200 with req.user.id
verifyToken(req, t) ==
    LET token == extractToken(req)
        v == jwtVerify(token, "access", t)
    IN IF token = NoToken THEN SesReply("verify", 401)
       ELSE IF v = "expired" THEN [SesReply("verify", 401) EXCEPT !.expired = TRUE]
       ELSE IF v = "invalid" THEN SesReply("verify", 403)
       ELSE [SesReply("verify", 200) EXCEPT !.user = token.id]

\* a gate that lets a verified token pass only while its user has a refresh row
VerifyToken_needsRow(req) ==
    /\ arrived < MaxArrivals
    /\ arrived' = arrived + 1
    /\ resp' = [(IF verifyToken(req, now).status = 200
                   /\ ~\E r \in rows : r.user_id = extractToken(req).id
                 THEN SesReply("verify", 403)
                 ELSE verifyToken(req, now)) EXCEPT !.tok = extractToken(req)]
    /\ UNCHANGED <<rows, nextId, ses, accounts, issued, now, last>>
    /\ UNCHANGED <<lockVars, call>>

\* a gate that answers an expired token like any other invalid token
VerifyToken_expiredAsInvalid(req) ==
    /\ arrived < MaxArrivals
    /\ arrived' = arrived + 1
    /\ resp' = [(IF verifyToken(req, now).expired THEN SesReply("verify", 403)
                 ELSE verifyToken(req, now)) EXCEPT !.tok = extractToken(req)]
    /\ UNCHANGED <<rows, nextId, ses, accounts, issued, now, last>>
    /\ UNCHANGED <<lockVars, call>>

\* GET /verify: the middleware and the route's handler are synchronous, so
\* the request is received and answered in one step
VerifyToken(req) ==
    /\ arrived < MaxArrivals
    /\ arrived' = arrived + 1
    /\ resp' = [verifyToken(req, now) EXCEPT !.tok = extractToken(req)]
    /\ UNCHANGED <<rows, nextId, ses, accounts, issued, now, last>>
    /\ UNCHANGED <<lockVars, call>>

\* a user row disappears from the Credential Store (an operator's delete; the
\* handlers never remove users).  Only the removal of a user who holds a
\* refresh row is modelled: a user without one is to every handler what a
\* userid nobody registered is.
AccountRemoved(u) ==
    /\ u \in accounts
    /\ \E r \in rows : r.user_id = u
    /\ accounts' = accounts \ {u}
    /\ UNCHANGED <<rows, nextId, ses, issued, now, last, arrived>>
    /\ resp' = NoResp
    /\ UNCHANGED <<lockVars, call>>

\* The session clock is observed after alternating steps of one hour (an
\* access token's life) and of half an hour less than the refresh TTL.
LongStep == REFRESH_TOKEN_EXPIRES_IN - (HourS \div 2)

\* number of steps the clock has taken to show t
SesTicksOf(t) ==
    2 * (t \div (HourS + LongStep)) + (IF t % (HourS + LongStep) >= HourS THEN 1 ELSE 0)

SesTick ==
    /\ SesTicksOf(now) < MaxSesTicks
    /\ now' = now + (IF SesTicksOf(now) % 2 = 0 THEN HourS ELSE LongStep)
    /\ UNCHANGED <<rows, nextId, ses, issued, last, arrived, accounts>>
    /\ resp' = NoResp
    /\ UNCHANGED <<lockVars, call>>

-----------------------------------------------------------------------------

LockInit ==
    /\ locks = [k \in Keys |-> NoLock]
    /\ timers = {}
    /\ reg = [r \in RegIds |-> IdleReg]
    /\ users = {}
    /\ nextCleanup = cleanupInterval
    /\ clock = 0
    /\ lapsed = {}

SesInit ==
    /\ rows = {}
    /\ nextId = 1
    /\ ses = [s \in SesIds |-> IdleSes]
    /\ accounts = Users
    /\ issued = {}
    /\ now = 0
    /\ last = [u \in Users |-> [row |-> 0, tok |-> NoToken]]
    /\ resp = NoResp
    /\ arrived = 0

\* no function is being called on its own while the server runs
NoCall == [fn |-> "none"]

Init == LockInit /\ SesInit /\ call = NoCall

LockNext ==
    \/ \E r \in RegIds, body \in RegBodies : RegisterStart(r, body)
    \/ \E r \in RegIds, outcome \in {"ok", "error"} : RegisterFind(r, outcome)
    \/ \E r \in RegIds, outcome \in {"ok", "dup", "error"} : RegisterCreate(r, outcome)
    \/ \E r \in RegIds : RegisterFolder(r)
    \/ \E t \in timers : TimerFire(t)
    \/ Cleanup
    \/ \E d \in TickSteps : LockTick(d)

LockSpec == Init /\ [][LockNext]_vars

\* The event loop runs every timer callback that is due, and time passes:
\* weak fairness of the setTimeout callbacks and of the clock.  The handlers
\* get no fairness: an awaited store call may never return.
LockLiveSpec ==
    /\ LockSpec
    /\ WF_vars(\E t \in timers : TimerFire(t))
    /\ WF_vars(\E d \in TickSteps : LockTick(d))

Next ==
    \/ \E s \in SesIds, body \in LoginBodies : LoginStart(s, body)
    \/ \E s \in SesIds, outcome \in {"ok", "error"} : LoginSelect(s, outcome)
    \/ \E s \in SesIds : LoginAuth(s)
    \/ \E s \in SesIds : LoginHash(s)
    \/ \E s \in SesIds, outcome \in {"ok", "error"} : LoginDelete(s, outcome)
    \/ \E s \in SesIds, outcome \in {"ok", "error"} : LoginInsert(s, outcome)
    \/ \E s \in SesIds, req \in Requests : RefreshStart(s, req)
    \/ \E s \in SesIds, outcome \in {"ok", "error"} : RefreshSelect(s, outcome)
    \/ \E s \in SesIds : RefreshFind(s)
    \/ \E s \in SesIds, outcome \in {"ok", "error"} : RefreshExpSelect(s, outcome)
    \/ \E s \in SesIds : RefreshExpFind(s)
    \/ \E s \in SesIds, outcome \in {"ok", "error"} : RefreshExpDelete(s, outcome)
    \/ \E s \in SesIds, outcome \in {"ok", "error"} : RefreshUser(s, outcome)
    \/ \E s \in SesIds, req \in Requests : LogoutStart(s, req)
    \/ \E s \in SesIds, outcome \in {"ok", "error"} : LogoutSelect(s, outcome)
    \/ \E s \in SesIds : LogoutFind(s)
    \/ \E s \in SesIds, outcome \in {"ok", "error"} : LogoutDelete(s, outcome)
    \/ \E req \in Requests : VerifyToken(req)
    \/ \E u \in Users : AccountRemoved(u)
    \/ SesTick

Spec == Init /\ [][Next]_vars

-----------------------------------------------------------------------------
(* extractToken on the raw request: a function called on its own *)

\* undefined / null, and a string as the sequence of its pieces
Null == [defined |-> FALSE, str |-> <<>>]

Str(s) == [defined |-> TRUE, str |-> s]

\* JavaScript truthiness of undefined, null and strings
truthy(v) == v.defined /\ v.str # <<>>

\* String.prototype.startsWith
startsWith(s, prefix) ==
    Len(s) >= Len(prefix) /\ SubSeq(s, 1, Len(prefix)) = prefix

\* String.prototype.split(sep): the pieces between the occurrences of sep
RECURSIVE split(_, _)
split(s, sep) ==
    IF \A i \in DOMAIN s : s[i] # sep
    THEN <<s>>
    ELSE LET i == CHOOSE j \in DOMAIN s :
                      s[j] = sep /\ \A k \in 1..(j - 1) : s[k] # sep
         IN <<SubSeq(s, 1, i - 1)>> \o split(SubSeq(s, i + 1, Len(s)), sep)

\* the body field is read before the header
extractTokenRaw_bodyFirst(req) ==
    IF truthy(req.body) THEN req.body
    ELSE IF truthy(req.authorization)
            /\ startsWith(req.authorization.str, <<"Bearer", " ">>)
         THEN Str(split(req.authorization.str, " ")[2])
    ELSE IF truthy(req.cookie) THEN req.cookie
    ELSE Null

\* extractToken(req, tokenType) with req.headers.authorization,
\* req.body[tokenType] and req.cookies[tokenType] as they arrive
extractTokenRaw(req) ==
    IF truthy(req.authorization)
       /\ startsWith(req.authorization.str, <<"Bearer", " ">>)
    THEN Str(split(req.authorization.str, " ")[2])
    ELSE IF truthy(req.body) THEN req.body
    ELSE IF truthy(req.cookie) THEN req.cookie
    ELSE Null

\* the pieces an Authorization header is made of, and its longest length
HeaderPieces == {"Bearer", "Basic", " ", "a"}

MaxHeader == 3

Headers ==
    {Null} \cup {Str(h) : h \in UNION {[1..n -> HeaderPieces] : n \in 0..MaxHeader}}

RawRequests ==
    [authorization : Headers,
     body : {Null, Str(<<>>), Str(<<"b">>)},
     cookie : {Null, Str(<<>>), Str(<<"c">>)}]

ExtractInit ==
    /\ LockInit /\ SesInit
    /\ call \in {[fn |-> "extractToken", pc |-> "called", req |-> q, out |-> Null] :
                    q \in RawRequests}

\* the call returns
ExtractToken ==
    /\ call.fn = "extractToken" /\ call.pc = "called"
    /\ call' = [call EXCEPT !.pc = "returned", !.out = extractTokenRaw(call.req)]
    /\ UNCHANGED <<lockVars, sesVars>>

ExtractNext == ExtractToken

ExtractSpec == ExtractInit /\ [][ExtractNext]_vars

-----------------------------------------------------------------------------
(* Token.saveRefreshToken called on its own, with any arguments *)

\* arguments of a call: userId 0, the empty hashedToken and expiresAt 0 stand
\* for an absent (falsy) argument
SaveArgs ==
    [userId : {0} \cup Users,
     hashedToken : {<<>>} \cup {<<"HS256", u>> : u \in Users},
     expiresAt : {0, REFRESH_TOKEN_EXPIRES_IN}]

\* contents of the table when the call is made
Tables ==
    SUBSET {[id |-> u, user_id |-> u, token |-> <<"HS256", u>>,
             expires_at |-> DayS] : u \in Users}

\* the three required-parameter tests
saveArgsValid_any(a) == TRUE

saveArgsValid(a) == a.userId # 0 /\ a.hashedToken # <<>> /\ a.expiresAt # 0

SaveInit ==
    /\ LockInit
    /\ rows \in Tables
    /\ nextId = Cardinality(Users) + 1
    /\ ses = [s \in SesIds |-> IdleSes]
    /\ accounts = Users
    /\ issued = {}
    /\ now = 0
    /\ last = [u \in Users |-> [row |-> 0, tok |-> NoToken]]
    /\ resp = NoResp
    /\ arrived = 0
    /\ call \in {[fn |-> "saveRefreshToken", pc |-> "called", args |-> a,
                   before |-> rows, err |-> ""] : a \in SaveArgs}

\* the call runs up to its first await: the parameter tests, then the delete
\* request is sent
SaveValidate ==
    /\ call.fn = "saveRefreshToken" /\ call.pc = "called"
    /\ call' = IF saveArgsValid(call.args)
               THEN [call EXCEPT !.pc = "delete"]
               ELSE [call EXCEPT !.pc = "thrown", !.err = "validation"]
    /\ UNCHANGED <<lockVars, sesVars>>

\* await this.deleteRefreshToken(userId) resumes
SaveDelete(outcome) ==
    /\ call.fn = "saveRefreshToken" /\ call.pc = "delete"
    /\ IF outcome = "error"
       THEN /\ call' = [call EXCEPT !.pc = "thrown", !.err = "delete"]
            /\ UNCHANGED rows
       ELSE /\ rows' = deleteRefreshToken(rows, call.args.userId)
            /\ call' = [call EXCEPT !.pc = "insert"]
    /\ UNCHANGED <<nextId, ses, accounts, issued, now, last, resp, arrived>>
    /\ UNCHANGED lockVars

\* await supabase ... insert resumes
SaveInsert(outcome) ==
    /\ call.fn = "saveRefreshToken" /\ call.pc = "insert"
    /\ IF outcome = "error"
       THEN /\ call' = [call EXCEPT !.pc = "thrown", !.err = "insert"]
            /\ UNCHANGED <<rows, nextId>>
       ELSE /\ rows' = insertRow(rows, nextId, call.args.userId,
                                 call.args.hashedToken, call.args.expiresAt)
            /\ nextId' = nextId + 1
            /\ call' = [call EXCEPT !.pc = "returned"]
    /\ UNCHANGED <<ses, accounts, issued, now, last, resp, arrived>>
    /\ UNCHANGED lockVars

SaveNext ==
    \/ SaveValidate
    \/ \E outcome \in {"ok", "error"} : SaveDelete(outcome)
    \/ \E outcome \in {"ok", "error"} : SaveInsert(outcome)

SaveSpec == SaveInit /\ [][SaveNext]_vars

-----------------------------------------------------------------------------
(* Token.deleteExpiredTokens called on its own (nothing in the server calls it) *)

\* .delete().lt('expires_at', new Date().toISOString())
deleteExpiredTokens(rs, t) == {r \in rs : ~(r.expires_at < t)}

\* contents of the table when the call is made
ExpiryTables ==
    SUBSET {[id |-> 1, user_id |-> 1, token |-> <<"HS256", 1>>,
             expires_at |-> REFRESH_TOKEN_EXPIRES_IN],
            [id |-> 2, user_id |-> 1, token |-> <<"HS256", 1>>,
             expires_at |-> REFRESH_TOKEN_EXPIRES_IN + HourS],
            [id |-> 3, user_id |-> 2, token |-> <<"HS256", 2>>,
             expires_at |-> REFRESH_TOKEN_EXPIRES_IN]}

ExpireInit ==
    /\ LockInit
    /\ rows \in ExpiryTables
    /\ nextId = 4
    /\ ses = [s \in SesIds |-> IdleSes]
    /\ accounts = Users
    /\ issued = {}
    /\ now \in {0, REFRESH_TOKEN_EXPIRES_IN, HourS + LongStep}
    /\ last = [u \in Users |-> [row |-> 0, tok |-> NoToken]]
    /\ resp = NoResp
    /\ arrived = 0
    /\ call = [fn |-> "deleteExpiredTokens", pc |-> "called", out |-> 0]

\* the awaited delete resumes: the rows past their expires_at are gone and
\* their number is returned, or the storage error is thrown
DeleteExpiredTokens(outcome) ==
    /\ call.fn = "deleteExpiredTokens" /\ call.pc = "called"
    /\ IF outcome = "error"
       THEN /\ call' = [call EXCEPT !.pc = "thrown"]
            /\ UNCHANGED rows
       ELSE /\ rows' = deleteExpiredTokens(rows, now)
            /\ call' = [call EXCEPT !.pc = "returned",
                                    !.out = Cardinality(rows \ deleteExpiredTokens(rows, now))]
    /\ UNCHANGED <<nextId, ses, accounts, issued, now, last, resp, arrived>>
    /\ UNCHANGED lockVars

ExpireNext == \E outcome \in {"ok", "error"} : DeleteExpiredTokens(outcome)

ExpireSpec == ExpireInit /\ [][ExpireNext]_vars

-----------------------------------------------------------------------------
(* Properties of the registration lock (checked under LockSpec) *)

Cur == LockState(locks, timers)

\* request r has acquired the lock and not yet responded
Running(r) == reg[r].pc \in {"find", "create", "folder"}

\* request r is between its successful acquire and the end of its user insert
InSpan(r) == reg[r].pc \in {"find", "create"}

\* C1: lock exclusivity.  An acquire(k) on a held key returns false (the request
\* is answered 429) and changes nothing; an acquire(k) on a free key returns true
\* and makes the caller the holder; no acquire touches another key's entry; and
\* a handler's release leaves its key free, so the next acquire(k) succeeds.
C1_LockExclusivity ==
    [][\A r \in RegIds :
         /\ \A body \in RegBodies :
               (RegisterValid(body) /\ RegisterStart(r, body)) =>
                   LET k == body.userid IN
                   /\ has(Cur, k) => /\ reg'[r].pc = "done" /\ reg'[r].status = 429
                                     /\ locks' = locks /\ timers' = timers
                   /\ ~has(Cur, k) => /\ reg'[r].pc = "find"
                                      /\ locks'[k] = [timestamp |-> clock, timer |-> r]
                   /\ \A j \in Keys \ {k} : locks'[j] = locks[j]
         /\ (Running(r) /\ reg'[r].pc = "done") => locks'[reg[r].userid] = NoLock
      ]_vars

\* C1 witness: acquire("alice") true, a second one false, release, a third true
C1_Witness ==
    /\ reg[1].pc = "done" /\ reg[1].status = 201 /\ users = {"alice"}
    /\ reg[2].pc = "done" /\ reg[2].status = 429
    /\ reg[3].pc = "find" /\ reg[3].userid = "alice" /\ locks["alice"].timer = 3
    /\ locks["bob"] = NoLock /\ lapsed = {}

\* two different requests for the same userid are both inside their spans
Overlap(r1, r2) ==
    r1 # r2 /\ InSpan(r1) /\ InSpan(r2) /\ reg[r1].userid = reg[r2].userid

\* C2 as stated: the acquire..insert spans of two register requests for the same
\* userid never overlap, whatever the timers do.
C2_Original == \A r1, r2 \in RegIds : ~Overlap(r1, r2)

\* C2 amended: the spans of two register requests for the same userid do not
\* overlap in any interleaving in which no entry for that userid is auto-released
\* (by its timer or by cleanup) while the request that acquired it is running.
C2_SerializedUnlessLapsed ==
    \A r1, r2 \in RegIds : Overlap(r1, r2) => reg[r1].userid \in lapsed

\* C2 witness: one request is inside its span, no entry for its userid has
\* lapsed, and the only other request so far was turned away (429), which can
\* only have been for the same userid since no other key was ever held
C2_Witness ==
    \E r1, r2 \in RegIds :
        /\ InSpan(r1) /\ reg[r1].userid \notin lapsed
        /\ reg[r2].pc = "done" /\ reg[r2].status = 429
        /\ \A k \in Keys \ {reg[r1].userid} : locks[k] = NoLock /\ k \notin users
        /\ \A q \in RegIds \ {r1, r2} : reg[q].pc = "idle"

\* C16: lock auto-release.  Every entry of the lock map has a pending timer
\* due one timeout window (5000 ms) after the entry's timestamp, and every
\* entry is removed even if the handler that acquired it never calls release
\* (as long as the modelled clock can still advance): no key stays locked
\* forever, and once the entry is gone acquire(k) returns true again.
C16_LockAutoRelease ==
    /\ [](\A k \in Keys :
            has(Cur, k) => \E t \in timers : /\ t.id = locks[k].timer /\ t.key = k
                                            /\ t.due = locks[k].timestamp + timeout)
    /\ \A k \in Keys, r \in RegIds :
          (locks[k].timer = r /\ TicksOf(clock) < MaxLockTicks)
              ~> (locks[k].timer # r)

\* C16 witness: request 1 still awaits its store call, its entry was removed
\* by the timer one window after the acquire, and the acquire of request 2
\* for the same userid has returned true
C16_Witness ==
    /\ clock = timeout /\ nextCleanup = cleanupInterval
    /\ reg[1].pc = "find" /\ reg[1].userid = "alice" /\ "alice" \in lapsed
    /\ reg[2].pc = "find" /\ reg[2].userid = "alice"
    /\ locks["alice"] = [timestamp |-> timeout, timer |-> 2]

\* C17: lock-map invariant.  In every reachable state each key present in the
\* lock map was acquired by a register request for that userid that has not
\* yet sent its response.
C17_LockedKeyInFlight ==
    \A k \in Keys :
        has(Cur, k) => Running(locks[k].timer) /\ reg[locks[k].timer].userid = k

\* C17 witness: request 1 has been answered 201 and its key is free again,
\* while request 2 holds the key of its own userid between acquire and response
C17_Witness ==
    /\ reg[1].pc = "done" /\ reg[1].status = 201 /\ users = {"alice"}
    /\ locks["alice"] = NoLock
    /\ reg[2].pc = "create" /\ reg[2].userid = "bob" /\ locks["bob"].timer = 2

-----------------------------------------------------------------------------
(* Properties of the session tokens (checked under Spec) *)

\* the refresh rows of user u
RowsOf(u) == {r \in rows : r.user_id = u}

\* C3: single-row invariant.  In every reachable state the refresh-token store
\* holds at most one row for the same userId, whatever logins, refreshes and
\* logouts have run and however they interleaved.
C3_SingleRowPerUser == \A u \in Users : Cardinality(RowsOf(u)) <= 1

\* C4: after successful logins of one user that did not overlap each other, the
\* store holds exactly one refresh row for that user, and it is the row the
\* most recent of these logins created (its id, the hash of its token).
C4_SequentialLoginsLeaveOneRow ==
    \A u \in Users :
        last[u].row # 0 =>
            /\ Cardinality(RowsOf(u)) = 1
            /\ \A r \in RowsOf(u) : r.id = last[u].row /\ r.token = bcryptHash(last[u].tok)

\* C4 witness: user 1 has logged in at 0 and again an hour later, the second
\* login on its own; the table has handed out two ids
C4_Witness ==
    /\ generateRefreshToken(1, 0) \in issued
    /\ last[1] = [row |-> 2, tok |-> generateRefreshToken(1, HourS)]
    /\ nextId = 3
    /\ RowsOf(2) = {}

\* C5: replace-on-login revokes the earlier token.  Once a later login of the
\* user has saved its token, findRefreshToken of a refresh token an earlier
\* login issued returns null, and findRefreshToken of the later login's token
\* returns that login's row.
C5_EarlierTokenRevoked ==
    \A u \in Users :
        last[u].row # 0 =>
            /\ \A t \in issued :
                 (t.kind = "refresh" /\ t.id = u /\ t # last[u].tok)
                     => findRefreshToken(rows, t) = {NoRow}
            /\ \A r \in findRefreshToken(rows, last[u].tok) : r.id = last[u].row

\* this step sends the response of request s
Answers(s) == ses[s].pc # "idle" /\ ses'[s].pc = "idle"

\* what a refresh step does on the way to a new access token: the handler
\* goes on to the store only with a token that verifies under the refresh
\* secret and is within its expiry; the row it picks is a row of the table it
\* reads that bcrypt.compare accepts for the token; it goes on to the
\* Credential Store only when it picked a row and that row is not past its
\* expires_at; it answers with an access token only from there, for a user
\* that resolves, with 200 and a token signed now for the token's user
RefreshChecks(s) ==
    /\ (ses[s].pc = "idle" /\ ses'[s].op = "refresh")
          => jwtVerify(ses'[s].tok, "refresh", now) = "ok"
    /\ (ses[s].op = "refresh" /\ ses[s].pc = "select" /\ ses'[s].rowid # 0)
          => \E r \in Matching(rows, ses[s].tok) :
                r.id = ses'[s].rowid /\ r.expires_at = ses'[s].exp
    /\ (ses[s].op = "refresh" /\ ses[s].pc # "user" /\ ses'[s].pc = "user")
          => ses[s].pc = "find" /\ ses[s].rowid # 0 /\ ~(now > ses[s].exp)
    /\ (ses[s].op = "refresh" /\ Answers(s) /\ resp'.acc # NoToken)
          => /\ ses[s].pc = "user"
             /\ ses[s].tok.id \in accounts
             /\ resp'.status = 200
             /\ resp'.acc = generateAccessToken(ses[s].tok.id, now)
    /\ (ses[s].op = "refresh" /\ Answers(s) /\ resp'.status = 404)
          => ses[s].pc = "user" /\ ses[s].tok.id \notin accounts

\* a refresh response carries an access token only as the answer of a request
RefreshIssuesByAnswer ==
    (resp'.op = "refresh" /\ resp'.acc # NoToken)
        => \E s \in SesIds : ses[s].op = "refresh" /\ Answers(s)

\* C6 as stated: refresh issues a new access token only if the presented token
\* verifies under the refresh secret within its expiry, a persisted row matches
\* it, that row's expiresAt has not passed and the user resolves; in every other
\* case no access token is issued and the status is 401, or 404 when the user
\* does not resolve.
C6_Original ==
    [][/\ \A s \in SesIds : RefreshChecks(s)
       /\ RefreshIssuesByAnswer
       /\ (resp'.op = "refresh" /\ resp'.acc = NoToken) => resp'.status \in {401, 404}
      ]_vars

\* C6 amended: the same conditions are necessary for a new access token; in
\* every other case no access token is issued and the status is 400 (no token
\* presented), 401, 404 (the user does not resolve) or 500 (the Credential
\* Store lookup failed).
C6_RefreshIssuesOnlyWhenAllHold ==
    [][/\ \A s \in SesIds : RefreshChecks(s)
       /\ RefreshIssuesByAnswer
       /\ (resp'.op = "refresh" /\ resp'.acc = NoToken)
             => resp'.status \in {400, 401, 404, 500}
      ]_vars

\* C6 witness: an hour after user 1's login a refresh is answered with a new
\* access token while the login's row is in the store
C6_Witness ==
    /\ resp.op = "refresh" /\ resp.status = 200
    /\ resp.acc = generateAccessToken(1, HourS)
    /\ generateRefreshToken(1, 0) \in issued
    /\ \E r \in RowsOf(1) : r.expires_at >= now
    /\ 1 \in accounts

\* C7: persisted expiry is authoritative.  When a refresh with a token that
\* verifies finds a matching row past its expiresAt and its delete is carried
\* out, the refresh is answered 401 and, no login having inserted a row in
\* the meantime, no row matching the token is left.
C7_ExpiredRowDeleted ==
    [][\A s \in SesIds :
         (RefreshExpDelete(s, "ok") /\ ses[s].from = nextId)
            => /\ resp'.status = 401 /\ resp'.acc = NoToken
               /\ Matching(rows', ses[s].tok) = {}
      ]_vars

\* C8: logout revokes.  When a logout that presented a refresh token the server
\* issued is answered 200, no login having inserted a row in the meantime, no
\* row matching that token is left (so no refresh with it can find one).
C8_LogoutRevokes ==
    [][\A s \in SesIds :
         (/\ ses[s].op = "logout" /\ Answers(s) /\ resp'.status = 200
          /\ ses[s].tok \in issued /\ ses[s].tok.kind = "refresh"
          /\ ses[s].from = nextId)
            => Matching(rows', ses[s].tok) = {}
      ]_vars

\* C9: logout fallback by user id.  When a logout that carried no refresh token
\* (no body token, no cookie) and whose req.user came from a valid access token
\* is answered 200, no login having inserted a row in the meantime, no refresh
\* row of that user id is left.
C9_LogoutByUserId ==
    [][\A s \in SesIds :
         (/\ ses[s].op = "logout" /\ Answers(s) /\ resp'.status = 200
          /\ ses[s].bare /\ ses[s].uid # 0
          /\ ses[s].from = nextId)
            => \A r \in rows' : r.user_id # ses[s].uid
      ]_vars

\* C10: logout never fails from the caller's side.  Every logout response,
\* whatever the store calls returned, is 200 and clears all three cookies.
C10_LogoutAlwaysSucceeds ==
    resp.op = "logout"
        => resp.status = 200 /\ resp.cleared = {"accessToken", "refreshToken", "rememberMe"}

\* C11: logout idempotence.  A logout that arrives right after the 200 answer
\* of a logout with the same refresh token is answered 200 with the three
\* cookies cleared and, no login having inserted a row in the meantime, leaves
\* the store as the first one left it.
C11_LogoutIdempotent ==
    [][\A s \in SesIds :
         (/\ ses[s].op = "logout" /\ ses[s].again /\ Answers(s)
          /\ ses[s].from = nextId)
            => /\ resp'.status = 200
               /\ resp'.cleared = {"accessToken", "refreshToken", "rememberMe"}
               /\ rows' = rows
      ]_vars

\* C12: rememberMe extends the refresh token's lifetime.  The refresh token of
\* a successful login, and the row saved for it, expire 30 days after the login
\* when rememberMe is true and 7 days after it when rememberMe is false; the
\* access token lives one hour in both cases.
C12_RememberMeExtendsRefresh ==
    (resp.op = "login" /\ resp.status = 200) =>
        LET ttl == IF resp.rm THEN 30 * DayS ELSE 7 * DayS
        IN /\ resp.ref.exp = resp.ref.iat + ttl
           /\ \A r \in rows : r.id = nextId - 1 => r.expires_at = resp.ref.iat + ttl
           /\ resp.acc.exp = resp.acc.iat + HourS

\* C13: cookie TTLs of a successful login.  The refreshToken cookie lives 7
\* days without rememberMe and 30 days with it, the rememberMe cookie lives as
\* long as the refreshToken cookie, and the accessToken cookie lives one hour
\* for both values of rememberMe.
C13_LoginCookieTtls ==
    (resp.op = "login" /\ resp.status = 200) =>
        LET ttl == IF resp.rm THEN 30 * DayS ELSE 7 * DayS
        IN resp.cookies = {<<"accessToken", HourS>>, <<"refreshToken", ttl>>,
                           <<"rememberMe", ttl>>}

\* C13 witness: a login with rememberMe answered 200 with a 30-day cookie
C13_Witness ==
    /\ resp.op = "login" /\ resp.status = 200 /\ resp.rm
    /\ <<"refreshToken", 30 * DayS>> \in resp.cookies
    /\ resp.ref # NoToken

\* C14: Auth Gate outcome mapping.  No token: 401 without the expired flag.  A
\* token signed with the access secret whose expiry has passed: 401 with
\* expired.  Any other token that does not verify: 403.  A token that verifies:
\* the protected handler runs with the decoded identity (200 with the token's
\* user id), and it runs in no other case.
C14_GateOutcomes ==
    resp.op = "verify" =>
        LET t == resp.tok
            verifies == t.kind = "access" /\ now < t.exp
        IN /\ t = NoToken => resp.status = 401 /\ ~resp.expired
           /\ (t.kind = "access" /\ now >= t.exp) => resp.status = 401 /\ resp.expired
           /\ (t # NoToken /\ t.kind # "access") => resp.status = 403 /\ ~resp.expired
           /\ verifies => resp.status = 200 /\ resp.user = t.id
           /\ ~verifies => resp.status # 200 /\ resp.user = 0

\* C14 witness: an access token of user 1 presented an hour after its login is
\* turned away as expired
C14_Witness ==
    /\ resp.op = "verify" /\ resp.status = 401 /\ resp.expired
    /\ resp.tok = generateAccessToken(1, 0)
    /\ now = HourS

\* C15: the Auth Gate is stateless.  Its answer is the one computed from the
\* presented token and the time alone, whatever the refresh-token store holds,
\* and its step leaves the store as it was; so an access token that is within
\* its expiry is accepted whether or not its user still has a refresh row.
C15_GateStateless ==
    [][resp'.op = "verify" =>
          /\ rows' = rows /\ nextId' = nextId
          /\ resp' = [verifyToken([auth |-> resp'.tok, body |-> NoToken,
                                   cookie |-> NoToken], now)
                         EXCEPT !.tok = resp'.tok]
          /\ (resp'.tok.kind = "access" /\ now < resp'.tok.exp)
                => resp'.status = 200 /\ resp'.user = resp'.tok.id
      ]_vars

\* C15 witness: user 1 logged in and out again, the store is empty, and the
\* access token of that login is accepted
C15_Witness ==
    /\ resp.op = "verify" /\ resp.status = 200 /\ resp.user = 1
    /\ resp.tok = generateAccessToken(1, 0)
    /\ rows = {} /\ nextId = 2

\* C18: a store failure during login is fatal.  A login that passed the
\* credential check and ends without having stored its row is answered 500,
\* sets no cookie and hands out no token.
C18_LoginStoreFailureFatal ==
    [][\A s \in SesIds :
         (/\ ses[s].op = "login" /\ ses[s].pc \in {"delete", "insert"}
          /\ Answers(s) /\ nextId' = nextId)
            => /\ resp'.status = 500
               /\ resp'.cookies = {}
               /\ resp'.acc = NoToken /\ resp'.ref = NoToken
               /\ issued' = issued
      ]_vars

\* C18 witness: user 1 logged in, and a second login of user 1 failed to save
\* its token after the first login's row was deleted
C18_Witness ==
    /\ resp.op = "login" /\ resp.msg = "save"
    /\ generateRefreshToken(1, 0) \in issued
    /\ rows = {} /\ nextId = 2

\* C19 as stated: a failure to save the token after a successful credential
\* check is reported as a (degraded) success of the login.
C19_Original == resp.msg = "save" => resp.status = 200

\* C19 amended: a failure to save the token after a successful credential
\* check is reported as a failed login: status 500, no token in the body and
\* no cookie; only the message tells it apart from the other 500 of login.
C19_SaveFailureIsFailedLogin ==
    /\ resp.msg = "save" =>
          /\ resp.op = "login" /\ resp.status = 500
          /\ resp.acc = NoToken /\ resp.ref = NoToken /\ resp.cookies = {}
    /\ (resp.op = "login" /\ resp.status = 200) => resp.msg = ""

\* C19 witness: the very first login fails to save its token
C19_Witness ==
    /\ resp.op = "login" /\ resp.msg = "save" /\ resp.status = 500
    /\ issued = {} /\ rows = {} /\ arrived = 1

\* C20: a storage failure while refresh looks up the persisted row is answered
\* with a 500.
C20_RefreshLookupFailureIs500 ==
    [][\A s \in SesIds : RefreshSelect(s, "error") => resp'.status = 500]_vars

-----------------------------------------------------------------------------
(* Further properties of the registration lock (LockSpec) *)

\* C21: a lock conflict is transient and free of side effects.  A register
\* request whose acquire(userid) returns false is answered 429 in the same
\* step, goes on to no Credential Store call, and leaves the lock map, the
\* holder's entry and timer included, and the Credential Store as they were.
C21_ConflictSideEffectFree ==
    [][\A r \in RegIds, body \in RegBodies :
         (/\ RegisterValid(body) /\ RegisterStart(r, body)
          /\ ~acquire(Cur, body.userid, r, clock).ok)
            => /\ reg'[r] = Respond(r, 429)
               /\ locks' = locks /\ timers' = timers
               /\ users' = users
      ]_vars

\* C21 witness: request 2 was turned away with 429 while request 1 holds the
\* key with its entry and timer of the acquire at time 0
C21_Witness ==
    /\ reg[2].pc = "done" /\ reg[2].status = 429
    /\ reg[1].pc = "create" /\ reg[1].userid = "bob"
    /\ locks["bob"] = [timestamp |-> 0, timer |-> 1]
    /\ timers = {[id |-> 1, key |-> "bob", due |-> timeout]}
    /\ users = {} /\ reg[3].pc = "idle"

\* the timers pending for key k
TimersOf(T, k) == {t \in T : t.key = k}

\* C25: release(k) is idempotent and local.  On every lock state the program
\* reaches: release of a key that is not held changes nothing, a second
\* release changes nothing more, release of a held key removes the entry and
\* its pending timer, and no release touches another key's entry or timer.
\* Every handler step that ends a request with release(userid) leaves exactly
\* the state release computes.
C25_ReleaseIdempotentLocal ==
    /\ [](\A k \in Keys :
            LET L == release(Cur, k)
            IN /\ ~has(Cur, k) => L = Cur
               /\ release(L, k) = L
               /\ ~has(L, k) /\ TimersOf(L.timers, k) = {}
               /\ \A j \in Keys \ {k} :
                     L.locks[j] = locks[j] /\ TimersOf(L.timers, j) = TimersOf(timers, j))
    /\ [][\A r \in RegIds :
             (Running(r) /\ reg'[r].pc = "done")
                => LockState(locks', timers') = release(Cur, reg[r].userid)
         ]_vars

\* C25 witness: request 1 finished (201) after its entry had been auto-released
\* and nobody held its key, so its release found nothing to remove, while the
\* entry and the timer of request 2 for the other key are in place
C25_Witness ==
    /\ reg[1].pc = "done" /\ reg[1].status = 201 /\ "alice" \in lapsed
    /\ locks["alice"] = NoLock
    /\ reg[2].pc = "find" /\ reg[2].userid = "bob"
    /\ locks["bob"] = [timestamp |-> timeout, timer |-> 2]
    /\ timers = {[id |-> 2, key |-> "bob", due |-> 2 * timeout]}
    /\ reg[3].pc = "idle"

\* C26: timers and entries stay in one-to-one correspondence.  In every
\* reachable state the keys with a pending timer are the keys of the lock map,
\* each with the one timer its current entry armed; and a timer that fires
\* removes the entry that armed it, never one a later acquire created.
C26_TimersMatchEntries ==
    /\ [](\A k \in Keys :
            /\ has(Cur, k) <=> TimersOf(timers, k) # {}
            /\ has(Cur, k) =>
                  TimersOf(timers, k) = {[id |-> locks[k].timer, key |-> k,
                                         due |-> locks[k].timestamp + timeout]})
    /\ [][\A t \in timers :
             TimerFire(t) => locks[t.key].timer = t.id /\ locks'[t.key] = NoLock
         ]_vars

\* C26 witness: the entry of request 1 was removed by its timer, request 2
\* acquired the same key afterwards, and the one pending timer is the one of
\* request 2's entry
C26_Witness ==
    /\ "alice" \in lapsed /\ Running(1) /\ reg[1].userid = "alice"
    /\ locks["alice"] = [timestamp |-> timeout, timer |-> 2]
    /\ timers = {[id |-> 2, key |-> "alice", due |-> 2 * timeout]}
    /\ reg[2].pc = "create"

\* C27: a register handler only ever releases its own acquisition.  The
\* release(userid) of a finishing handler never removes an entry that a
\* different, still running register request acquired.
C27_ReleasesOnlyOwnEntry ==
    [][\A r \in RegIds :
         (Running(r) /\ reg'[r].pc = "done")
            => LET k == reg[r].userid
               IN (has(Cur, k) /\ locks[k].timer # r /\ Running(locks[k].timer))
                     => locks'[k] = locks[k]
      ]_vars

\* C28: no lock leak on completion.  Every step by which a handler that
\* acquired the lock sends its response (409, 201, 500) has called
\* release(userid): its key is free right after the step and no timer for the
\* key is pending.  A response sent before the acquire or on a lock conflict
\* (400, 429) comes without a release: the lock state is untouched.
C28_NoLockLeak ==
    [][\A r \in RegIds :
         /\ (Running(r) /\ reg'[r].pc = "done")
               => /\ reg'[r].status \in {201, 409, 500}
                  /\ locks'[reg[r].userid] = NoLock
                  /\ TimersOf(timers', reg[r].userid) = {}
         /\ (reg[r].pc = "idle" /\ reg'[r].pc = "done")
               => /\ reg'[r].status \in {400, 429}
                  /\ locks' = locks /\ timers' = timers
      ]_vars

\* C28 witness: at time 0 request 1 registered alice (201), request 2 for
\* alice was answered 409 by the uniqueness check, request 3 is refused by
\* validation, and no entry and no timer are left
C28_Witness ==
    /\ clock = 0 /\ users = {"alice"}
    /\ reg[1].status = 201 /\ reg[2].status = 409 /\ reg[3].status = 400
    /\ \A k \in Keys : locks[k] = NoLock
    /\ timers = {}

-----------------------------------------------------------------------------
(* Further properties of the session tokens (Spec) *)

\* a step of the refresh request in slot s
RefreshStep(s) == ses[s].op = "refresh" /\ ses'[s] # ses[s]

\* C23: refresh does not write the store.  A refresh answered 200 leaves the
\* store as it was; the only change a refresh step makes to the store is the
\* removal of one row that matches the presented token and whose expires_at
\* has passed; and a refresh whose token fails verification is answered in its
\* first step, before any store call.
C23_RefreshWritesNothing ==
    [][/\ \A s \in SesIds :
             RefreshStep(s) =>
                /\ resp'.status = 200 => rows' = rows
                /\ rows' # rows =>
                      \E r \in Matching(rows, ses[s].tok) :
                          rows' = rows \ {r} /\ now > r.expires_at
       /\ (resp'.op = "refresh" /\ ~\E s \in SesIds : RefreshStep(s))
             => rows' = rows /\ ses' = ses
      ]_vars

\* C24: concurrent saves are last-write-wins.  When the insert of a login's
\* save finds a row of its user that another save put there after this
\* save's delete, the login still succeeds, and afterwards findRefreshToken
\* returns a row for this login's token and for no other refresh token of the
\* user.
C24_LastWriteWins ==
    [][\A s \in SesIds :
         (LoginInsert(s, "ok") /\ RowsOf(ses[s].uid) # {})
            => /\ resp'.status = 200
               /\ NoRow \notin findRefreshToken(rows', ses[s].tok)
               /\ \A t \in issued :
                     (t.kind = "refresh" /\ t.id = ses[s].uid /\ t # ses[s].tok)
                        => findRefreshToken(rows', t) = {NoRow}
      ]_vars

\* C29: logout removes the session's row.  When a logout whose body or cookie
\* carries a valid refresh token of a user, with no Authorization header or
\* with one that carries an access token of that user, is answered 200, no
\* login having inserted a row in the meantime, no row matching that refresh
\* token is left.
C29_LogoutWithHeaderRevokes ==
    [][\A s \in SesIds :
         (/\ ses[s].op = "logout" /\ Answers(s) /\ resp'.status = 200
          /\ ses[s].carried \in issued
          /\ \/ ses[s].tok = ses[s].carried
             \/ ses[s].tok.kind = "access" /\ ses[s].tok.id = ses[s].carried.id
          /\ ses[s].from = nextId)
            => Matching(rows', ses[s].carried) = {}
      ]_vars

-----------------------------------------------------------------------------
(* Properties of extractToken (ExtractSpec) *)

\* what follows the scheme of a header, up to the next space
RECURSIVE UpToSpace(_)
UpToSpace(s) ==
    IF s = <<>> \/ Head(s) = " " THEN <<>> ELSE <<Head(s)>> \o UpToSpace(Tail(s))

\* C22: token source priority.  The token is the Bearer value of the
\* Authorization header when the header has the Bearer scheme, whatever the
\* body and the cookie hold; otherwise the body field when it is there;
\* otherwise the cookie when it is there; otherwise none.
C22_TokenSourcePriority ==
    (call.fn = "extractToken" /\ call.pc = "returned") =>
        LET h == call.req.authorization
            b == call.req.body
            c == call.req.cookie
            bearer == /\ h.defined /\ Len(h.str) >= 2
                      /\ h.str[1] = "Bearer" /\ h.str[2] = " "
        IN /\ bearer => call.out = Str(UpToSpace(SubSeq(h.str, 3, Len(h.str))))
           /\ (~bearer /\ truthy(b)) => call.out = b
           /\ (~bearer /\ ~truthy(b) /\ truthy(c)) => call.out = c
           /\ (~bearer /\ ~truthy(b) /\ ~truthy(c)) => call.out = Null

C22_Witness ==
    /\ call.fn = "extractToken" /\ call.pc = "returned"
    /\ call.req.authorization = Str(<<"Bearer", " ", "a">>)
    /\ call.req.body = Str(<<"b">>) /\ call.req.cookie = Str(<<"c">>)
    /\ call.out = Str(<<"a">>)

-----------------------------------------------------------------------------
(* Properties of Token.saveRefreshToken (SaveSpec) *)

\* C30: save is not atomic on failure.  When the insert fails after the delete
\* succeeded, the call throws and the rows the user had before the call stay
\* deleted, so that no row is found for a token of that user; when a required
\* argument (userId, hashedToken, expiresAt) is absent, the call throws before
\* the delete and the table is as it was.  A call with an absent argument
\* never gets past the parameter tests.
C30_SaveNotAtomic ==
    call.fn = "saveRefreshToken" =>
        LET a == call.args
            absent == a.userId = 0 \/ a.hashedToken = <<>> \/ a.expiresAt = 0
        IN /\ (call.pc = "thrown" /\ call.err = "insert")
                => /\ rows = {r \in call.before : r.user_id # a.userId}
                   /\ \A r \in rows : r.token # <<"HS256", a.userId>>
           /\ (absent /\ call.pc # "called")
                => /\ call.pc = "thrown" /\ call.err = "validation"
                   /\ rows = call.before
           /\ (call.pc = "thrown" /\ call.err = "validation") => absent

C30_Witness ==
    /\ call.fn = "saveRefreshToken"
    /\ call.pc = "thrown" /\ call.err = "insert"
    /\ call.args.userId = 1
    /\ \E r \in call.before : r.user_id = 1
    /\ \A r \in rows : r.user_id # 1

=============================================================================
